---- MODULE Spec2Model ----
(***************************************************************************)
(* Model of svelte-interactive-timeline: the timeline view-state store     *)
(* (core/store.svelte.ts), its microtask-coalesced subscriber              *)
(* notification, and the pointer / wheel gesture handlers of the           *)
(* TimelineCanvas component that drive the store.                          *)
(*                                                                         *)
(* Times and pixel positions are JavaScript numbers.  They are modelled    *)
(* as exact rationals [n |-> numerator, d |-> denominator] in lowest       *)
(* terms with d > 0; the JavaScript value null is the record with d = 0.   *)
(***************************************************************************)
EXTENDS Integers, Sequences, FiniteSets, TLC

\* ---------------------------------------------------------------- bounds
\* Most store calls the host makes in one synchronous burst (SpecBurst).
MaxBurst == 3
\* Number of view-changing host calls (setView, zoom, pan), wheel events and
\* pointer-downs in one behaviour; keeps the set of reachable rationals
\* finite.
MaxOps == 2
\* Width of the container at mount, in CSS pixels (the renderer's width
\* after the mount-time resize).
width == 100

\* ------------------------------------------------------------- rationals
RECURSIVE GCD(_, _)
GCD(a, b) == IF b = 0 THEN a ELSE GCD(b, a % b)

AbsInt(i) == IF i < 0 THEN -i ELSE i

Null == [n |-> 0, d |-> 0]

\* The rational num/den in lowest terms (den # 0).
Q(num, den) ==
    LET sn == IF den < 0 THEN -num ELSE num
        sd == AbsInt(den)
        g  == GCD(AbsInt(sn), sd)
    IN  [n |-> sn \div g, d |-> sd \div g]

Num(i) == [n |-> i, d |-> 1]

\* Sums and products cancel common factors before multiplying, so that no
\* intermediate value is larger than the result requires.
Add(a, b) ==
    LET g == GCD(a.d, b.d)
    IN  Q(a.n * (b.d \div g) + b.n * (a.d \div g), (a.d \div g) * b.d)
Sub(a, b) ==
    LET g == GCD(a.d, b.d)
    IN  Q(a.n * (b.d \div g) - b.n * (a.d \div g), (a.d \div g) * b.d)
Mul(a, b) ==
    LET g1 == GCD(AbsInt(a.n), b.d)
        g2 == GCD(AbsInt(b.n), a.d)
    IN  Q((a.n \div g1) * (b.n \div g2), (a.d \div g2) * (b.d \div g1))
\* a / b for b # 0.
Div(a, b) == Mul(a, IF b.n < 0 THEN [n |-> -b.d, d |-> -b.n]
                    ELSE [n |-> b.d, d |-> b.n])
Neg(a) == [n |-> -a.n, d |-> a.d]
Lt(a, b) ==
    LET g == GCD(a.d, b.d) IN a.n * (b.d \div g) < b.n * (a.d \div g)
Le(a, b) ==
    LET g == GCD(a.d, b.d) IN a.n * (b.d \div g) <= b.n * (a.d \div g)
MathMin(a, b) == IF Lt(b, a) THEN b ELSE a
MathMax(a, b) == IF Lt(a, b) THEN b ELSE a
MathAbs(a) == IF a.n < 0 THEN Neg(a) ELSE a

\* ------------------------------------------------------ configuration
minZoomDuration == Num(1)
minZoomSelectionThreshold == Q(1, 2)
playheadHitTolerance == Num(10)
dragThreshold == Num(5)
wheelZoomOut == Q(115, 100)
wheelZoomIn == Q(87, 100)

\* ------------------------------------------------------ coordinate math
clamp(value, min, max) == MathMin(MathMax(value, min), max)

\* Affine map; callers in this model never pass inEnd = inStart.
mapRange(value, inStart, inEnd, outStart, outEnd) ==
    Add(outStart, Mul(Div(Sub(value, inStart), Sub(inEnd, inStart)),
                      Sub(outEnd, outStart)))

zoomAtPoint(vStart, vEnd, zoomFactor, centerTime, dStart, dEnd, minDuration) ==
    LET currentDuration == Sub(vEnd, vStart)
        dataDur == Sub(dEnd, dStart)
        scaled == MathMax(minDuration, Mul(currentDuration, zoomFactor))
        newDuration == MathMin(scaled, dataDur)
        ratio == Div(Sub(centerTime, vStart), currentDuration)
        rawStart == Sub(centerTime, Mul(ratio, newDuration))
        s1 == IF Lt(rawStart, dStart) THEN dStart ELSE rawStart
        e1 == Add(s1, newDuration)
        e2 == IF Lt(dEnd, e1) THEN dEnd ELSE e1
        s2 == IF Lt(dEnd, e1) THEN Sub(dEnd, newDuration) ELSE s1
    IN  [viewStart |-> s2, viewEnd |-> e2]

panView(currentViewStart, currentViewEnd, deltaTime, dStart, dEnd) ==
    LET duration == Sub(currentViewEnd, currentViewStart)
        rawStart == Add(currentViewStart, deltaTime)
        s1 == IF Lt(rawStart, dStart) THEN dStart ELSE rawStart
        e1 == Add(s1, duration)
        e2 == IF Lt(dEnd, e1) THEN dEnd ELSE e1
        s2 == IF Lt(dEnd, e1) THEN Sub(dEnd, duration) ELSE s1
    IN  [viewStart |-> s2, viewEnd |-> e2]

\* ------------------------------------------------------------ the state
VARIABLES
    \* createTimelineStore: the $state fields
    dataStart, dataEnd, viewStart, viewEnd, currentTime, leftX, rightX,
    hoveredTime, isDragging, zoomSelectionStart, zoomSelectionEnd,
    \* notification machinery
    notifyScheduled,    \* the flag of notifySubscribers
    microtasks,         \* flush callbacks waiting in the microtask queue
    \* TimelineCanvas component
    currentState,       \* the snapshot the component last received
    panStartX, panStartViewStart, panStartViewEnd, zoomStartX,
    renderer,           \* the TimelineRenderer of the component
    viewChange,         \* arguments of the handler's onViewChange call
    timeChange,         \* argument of the handler's onTimeChange call
    \* subscribers of the store
    subscribers,        \* the Set of subscribers: the component's, the host's
    hostState,          \* <<the snapshot the host's subscriber last got>>
    delivered,          \* history: the subscribers invoked by the last
                        \* flush or subscribe call, in order
    \* history
    burst,              \* store mutations since the last flush (saturating)
    nOps,               \* view-changing calls, wheels and pointer-downs so far
    lastOp              \* the operation or handler that ran last

storeVars == <<dataStart, dataEnd, viewStart, viewEnd, currentTime, leftX,
               rightX, hoveredTime, isDragging, zoomSelectionStart,
               zoomSelectionEnd>>
subscriberVars == <<subscribers, hostState, delivered>>
vars == <<dataStart, dataEnd, viewStart, viewEnd, currentTime, leftX, rightX,
          hoveredTime, isDragging, zoomSelectionStart, zoomSelectionEnd,
          notifyScheduled, microtasks, currentState, panStartX,
          panStartViewStart, panStartViewEnd, zoomStartX, renderer,
          viewChange, timeChange, subscribers, hostState, delivered, burst,
          nOps, lastOp>>

initialState ==
    [dataStart |-> Num(0), dataEnd |-> Num(0), viewStart |-> Num(0),
     viewEnd |-> Num(0), currentTime |-> Num(0), leftX |-> Num(0),
     rightX |-> Num(0), hoveredTime |-> Null, isDragging |-> "none",
     zoomSelectionStart |-> Null, zoomSelectionEnd |-> Null]

\* getState that hands out the object it handed out before.
getStateCached == currentState

\* The store's fields as one record (what getState() returns).
getState ==
    [dataStart |-> dataStart, dataEnd |-> dataEnd, viewStart |-> viewStart,
     viewEnd |-> viewEnd, currentTime |-> currentTime, leftX |-> leftX,
     rightX |-> rightX, hoveredTime |-> hoveredTime,
     isDragging |-> isDragging, zoomSelectionStart |-> zoomSelectionStart,
     zoomSelectionEnd |-> zoomSelectionEnd]

\* The store inside a handler: its fields plus the notification machinery,
\* and the arguments of the onViewChange and onTimeChange calls the handler
\* has made (<<>> when it has made none).
Cur ==
    [st |-> getState, notifyScheduled |-> notifyScheduled,
     microtasks |-> microtasks, burst |-> burst, viewChange |-> <<>>,
     timeChange |-> <<>>]

\* Assign a store value computed by a handler to the variables.
Commit(c) ==
    /\ dataStart' = c.st.dataStart
    /\ dataEnd' = c.st.dataEnd
    /\ viewStart' = c.st.viewStart
    /\ viewEnd' = c.st.viewEnd
    /\ currentTime' = c.st.currentTime
    /\ leftX' = c.st.leftX
    /\ rightX' = c.st.rightX
    /\ hoveredTime' = c.st.hoveredTime
    /\ isDragging' = c.st.isDragging
    /\ zoomSelectionStart' = c.st.zoomSelectionStart
    /\ zoomSelectionEnd' = c.st.zoomSelectionEnd
    /\ notifyScheduled' = c.notifyScheduled
    /\ microtasks' = c.microtasks
    /\ burst' = c.burst
    /\ viewChange' = c.viewChange
    /\ timeChange' = c.timeChange

\* ------------------------------------------------ store: notification
notifySubscribersUnguarded(c) ==
    [c EXCEPT !.notifyScheduled = TRUE, !.microtasks = @ + 1]

notifySubscribers(c) ==
    IF c.notifyScheduled THEN c
    ELSE [c EXCEPT !.notifyScheduled = TRUE, !.microtasks = @ + 1]

\* withNotify(fn): run fn (already applied, giving store fields s), then
\* notifySubscribers.
withNotify(c, s) ==
    notifySubscribers([c EXCEPT !.st = s,
                                !.burst = IF @ < MaxBurst THEN @ + 1 ELSE @])

\* ---------------------------------------------------- store: operations
\* Each operation takes the store c and returns the store after the call.
initializePlayheadZero(c, endTime, startTime) ==
    withNotify(c, [c.st EXCEPT !.dataStart = startTime, !.dataEnd = endTime,
                               !.viewStart = startTime, !.viewEnd = endTime,
                               !.currentTime = Num(0)])

initialize(c, endTime, startTime) ==
    withNotify(c, [c.st EXCEPT !.dataStart = startTime, !.dataEnd = endTime,
                               !.viewStart = startTime, !.viewEnd = endTime,
                               !.currentTime = startTime])

\* reset that restores the pixel bounds of initialState as well.
resetAll(c) == withNotify(c, initialState)

reset(c) ==
    withNotify(c, [c.st EXCEPT !.dataStart = initialState.dataStart,
                               !.dataEnd = initialState.dataEnd,
                               !.viewStart = initialState.viewStart,
                               !.viewEnd = initialState.viewEnd,
                               !.currentTime = initialState.currentTime,
                               !.hoveredTime = initialState.hoveredTime,
                               !.isDragging = initialState.isDragging,
                               !.zoomSelectionStart =
                                   initialState.zoomSelectionStart,
                               !.zoomSelectionEnd =
                                   initialState.zoomSelectionEnd])

setCurrentTimeUnclamped(c, time) ==
    withNotify(c, [c.st EXCEPT !.currentTime = time])

setCurrentTime(c, time) ==
    withNotify(c, [c.st EXCEPT !.currentTime =
                                   clamp(time, c.st.dataStart, c.st.dataEnd)])

setViewUnclamped(c, start, end) ==
    withNotify(c, [c.st EXCEPT !.viewStart = start, !.viewEnd = end])

\* setView that puts the smaller argument first.
setViewReordered(c, start, end) ==
    withNotify(c, [c.st EXCEPT
        !.viewStart = clamp(MathMin(start, end), c.st.dataStart,
                            c.st.dataEnd),
        !.viewEnd = clamp(MathMax(start, end), c.st.dataStart,
                          c.st.dataEnd)])

setView(c, start, end) ==
    withNotify(c, [c.st EXCEPT
        !.viewStart = clamp(start, c.st.dataStart, c.st.dataEnd),
        !.viewEnd = clamp(end, c.st.dataStart, c.st.dataEnd)])

\* zoom that divides the duration by factor.
zoomDividesByFactor(c, factor, centerTime) ==
    LET center == IF centerTime = Null
                  THEN Div(Add(c.st.viewStart, c.st.viewEnd), Num(2))
                  ELSE centerTime
        result == zoomAtPoint(c.st.viewStart, c.st.viewEnd,
                              Div(Num(1), factor), center, c.st.dataStart,
                              c.st.dataEnd, minZoomDuration)
    IN  withNotify(c, [c.st EXCEPT !.viewStart = result.viewStart,
                                   !.viewEnd = result.viewEnd])

\* zoom that ignores centerTime and zooms about the view midpoint.
zoomAboutMidpoint(c, factor, centerTime) ==
    LET center == Div(Add(c.st.viewStart, c.st.viewEnd), Num(2))
        result == zoomAtPoint(c.st.viewStart, c.st.viewEnd, factor, center,
                              c.st.dataStart, c.st.dataEnd, minZoomDuration)
    IN  withNotify(c, [c.st EXCEPT !.viewStart = result.viewStart,
                                   !.viewEnd = result.viewEnd])

\* zoom with no minimum duration handed to zoomAtPoint.
zoomNoFloor(c, factor, centerTime) ==
    LET center == IF centerTime = Null
                  THEN Div(Add(c.st.viewStart, c.st.viewEnd), Num(2))
                  ELSE centerTime
        result == zoomAtPoint(c.st.viewStart, c.st.viewEnd, factor, center,
                              c.st.dataStart, c.st.dataEnd, Num(0))
    IN  withNotify(c, [c.st EXCEPT !.viewStart = result.viewStart,
                                   !.viewEnd = result.viewEnd])

\* zoom(factor, centerTime); centerTime = Null stands for an omitted
\* argument.
zoom(c, factor, centerTime) ==
    LET center == IF centerTime = Null
                  THEN Div(Add(c.st.viewStart, c.st.viewEnd), Num(2))
                  ELSE centerTime
        result == zoomAtPoint(c.st.viewStart, c.st.viewEnd, factor, center,
                              c.st.dataStart, c.st.dataEnd, minZoomDuration)
    IN  withNotify(c, [c.st EXCEPT !.viewStart = result.viewStart,
                                   !.viewEnd = result.viewEnd])

\* zoomToFit that also moves the playhead to the start of the data.
zoomToFitResetsPlayhead(c) ==
    withNotify(c, [c.st EXCEPT !.viewStart = c.st.dataStart,
                               !.viewEnd = c.st.dataEnd,
                               !.currentTime = c.st.dataStart])

zoomToFit(c) ==
    withNotify(c, [c.st EXCEPT !.viewStart = c.st.dataStart,
                               !.viewEnd = c.st.dataEnd])

\* pan that ignores a negative deltaTime.
panForwardOnly(c, deltaTime) ==
    LET result == panView(c.st.viewStart, c.st.viewEnd,
                          MathMax(deltaTime, Num(0)), c.st.dataStart,
                          c.st.dataEnd)
    IN  withNotify(c, [c.st EXCEPT !.viewStart = result.viewStart,
                                   !.viewEnd = result.viewEnd])

\* pan that clamps each bound on its own, as setView does.
panClampsEach(c, deltaTime) ==
    withNotify(c, [c.st EXCEPT
        !.viewStart = clamp(Add(c.st.viewStart, deltaTime), c.st.dataStart,
                            c.st.dataEnd),
        !.viewEnd = clamp(Add(c.st.viewEnd, deltaTime), c.st.dataStart,
                          c.st.dataEnd)])

pan(c, deltaTime) ==
    LET result == panView(c.st.viewStart, c.st.viewEnd, deltaTime,
                          c.st.dataStart, c.st.dataEnd)
    IN  withNotify(c, [c.st EXCEPT !.viewStart = result.viewStart,
                                   !.viewEnd = result.viewEnd])

setHover(c, time) == withNotify(c, [c.st EXCEPT !.hoveredTime = time])

setDragging(c, target) == withNotify(c, [c.st EXCEPT !.isDragging = target])

setZoomSelection(c, start, end) ==
    withNotify(c, [c.st EXCEPT !.zoomSelectionStart = start,
                               !.zoomSelectionEnd = end])

applyZoomSelectionNoThreshold(c) ==
    LET s == c.st
        both == s.zoomSelectionStart # Null /\ s.zoomSelectionEnd # Null
        start == MathMin(s.zoomSelectionStart, s.zoomSelectionEnd)
        end == MathMax(s.zoomSelectionStart, s.zoomSelectionEnd)
    IN  withNotify(c, [s EXCEPT
            !.viewStart = IF both THEN clamp(start, s.dataStart, s.dataEnd)
                          ELSE @,
            !.viewEnd = IF both THEN clamp(end, s.dataStart, s.dataEnd)
                        ELSE @,
            !.zoomSelectionStart = Null,
            !.zoomSelectionEnd = Null,
            !.isDragging = "none"])

applyZoomSelection(c) ==
    LET s == c.st
        both == s.zoomSelectionStart # Null /\ s.zoomSelectionEnd # Null
        start == MathMin(s.zoomSelectionStart, s.zoomSelectionEnd)
        end == MathMax(s.zoomSelectionStart, s.zoomSelectionEnd)
        apply == both /\ Lt(minZoomSelectionThreshold, Sub(end, start))
    IN  withNotify(c, [s EXCEPT
            !.viewStart = IF apply THEN clamp(start, s.dataStart, s.dataEnd)
                          ELSE @,
            !.viewEnd = IF apply THEN clamp(end, s.dataStart, s.dataEnd)
                        ELSE @,
            !.zoomSelectionStart = Null,
            !.zoomSelectionEnd = Null,
            !.isDragging = "none"])

updateXPositions(c, newLeftX, newRightX) ==
    withNotify(c, [c.st EXCEPT !.leftX = newLeftX, !.rightX = newRightX])

\* ------------------------------------------------------- input domains
\* Arguments the host passes to initialize(endTime, startTime).
EndTimes == {Num(0), Num(100)}
StartTimes == {Num(0), Num(20)}
\* Time arguments of setCurrentTime / setHover / setZoomSelection.
TimeArgs == {Num(-10), Num(30), Num(110)}
\* (start, end) arguments of setView.
ViewArgs == {<<Num(-10), Num(50)>>, <<Num(10), Num(40)>>,
             <<Num(60), Num(40)>>, <<Num(10), Q(23, 2)>>}
\* (factor, centerTime) arguments of zoom; Null = centerTime omitted.
ZoomArgs == {<<Q(1, 2), Num(60)>>, <<Num(2), Null>>}
PanArgs == {Num(20), Num(-20)}
\* (start, end) arguments of setZoomSelection.
SelectionArgs == {<<Num(30), Num(110)>>, <<Num(40), Num(40)>>,
                 <<Num(30), Null>>}
DragTargets == {"none", "playhead", "pan", "zoom-region"}
\* Pointer X positions relative to the surface's left edge, in pixels
\* (a captured pointer may be outside [0, width]).
PixelXs == {Num(12), Num(40), Num(102)}
\* Pointer-move positions of the gesture specification: inside the surface
\* and past its right edge.
MoveXs == {Num(40), Num(102)}
\* Pointer-down positions (always inside the surface).
DownXs == {Num(10), Num(98)}
\* (deltaX, deltaY) of wheel events.
WheelDeltas == {<<Num(0), Num(100)>>, <<Num(-60), Num(20)>>,
                <<Num(0), Num(-100)>>}

\* ------------------------------------------------------------ renderer
\* The TimelineRenderer object as a record:
\*   layers          the layer stack, bottom to top; a layer is
\*                   [name, visible, factor, sets], factor being the scale
\*                   its render() applies to the drawing context (1 =
\*                   none) and sets the viewEnd of the state its render()
\*                   passes to renderer.setState (Null = no such call)
\*   animationFrame  0 (null) or the id of the requested frame
\*   frames          callbacks of this renderer in the host's
\*                   animation-frame queue
\*   _width, _height logical size
\*   dpr             device pixel ratio
\*   ctx             the drawing context: current scale and save stack
\*   calls           history: the layer.render calls of the last frame, each
\*                   with the context's scale and stack depth on entry
\*                   and whether the layer called timeToX
\*   _state          the snapshot given to the constructor or to setState
\*   drawn           history: the state of the last frame that drew
\*   requests        history: requestRender calls since the last
\*                   display-refresh tick, counted up to 2
\*   tick            history: the last display-refresh tick that ran a
\*                   callback of this renderer: the requests it answered
\*                   and the executions of render it made
getDevicePixelRatio == 2
\* Height of the container at mount.
height == 40

BackgroundLayer ==
    [name |-> "background", visible |-> TRUE, factor |-> 1, sets |-> Null]
PlayheadLayer ==
    [name |-> "playhead", visible |-> TRUE, factor |-> 1, sets |-> Null]
ZoomSelectionLayer ==
    [name |-> "zoom-selection", visible |-> TRUE, factor |-> 1,
     sets |-> Null]
HoverLayer ==
    [name |-> "hover", visible |-> TRUE, factor |-> 1, sets |-> Null]
\* The result of Array.prototype.find when no element matches.
undefined ==
    [name |-> "undefined", visible |-> FALSE, factor |-> 0, sets |-> Null]

\* new TimelineRenderer(canvas, initialState, config) without config.layers.
TimelineRenderer ==
    [layers |-> <<BackgroundLayer, PlayheadLayer, ZoomSelectionLayer,
                  HoverLayer>>,
     animationFrame |-> 0, frames |-> 0, _width |-> 0, _height |-> 0,
     dpr |-> getDevicePixelRatio, ctx |-> [scale |-> 1, stack |-> <<>>],
     _state |-> initialState, drawn |-> <<>>,
     calls |-> <<>>, requests |-> 0,
     tick |-> [requests |-> 0, renders |-> 0]]

\* One more requestRender call since the last tick.
requested(r) == [r EXCEPT !.requests = IF @ < 2 THEN @ + 1 ELSE 2]

requestRenderUnguarded(r) ==
    [requested(r) EXCEPT !.animationFrame = 1, !.frames = @ + 1]

\* requestRender(): requestAnimationFrame(() => this.render()) unless a
\* frame is already requested.
requestRender(r) ==
    IF r.animationFrame # 0 THEN requested(r)
    ELSE [requested(r) EXCEPT !.animationFrame = 1, !.frames = @ + 1]

\* resize(width, height); assigning canvas.width resets the drawing
\* context.
resize(r, w, h) ==
    requestRender([r EXCEPT !._width = w, !._height = h,
                            !.dpr = getDevicePixelRatio,
                            !.ctx = [scale |-> 1, stack |-> <<>>]])

\* setState that requests a frame and keeps the snapshot it had.
setStateKeepsSnapshot(r, state) == requestRender(r)

setState(r, state) == requestRender([r EXCEPT !._state = state])

\* layers.findIndex((l) => l.name === name), 1-based; 0 when none matches.
findIndex(layers, name) ==
    IF \E i \in 1..Len(layers) : layers[i].name = name
    THEN CHOOSE i \in 1..Len(layers) :
             /\ layers[i].name = name
             /\ \A j \in 1..(i - 1) : layers[j].name # name
    ELSE 0

getLayer(r, name) ==
    LET i == findIndex(r.layers, name)
    IN  IF i = 0 THEN undefined ELSE r.layers[i]

\* layers.splice(index, 0, layer) for 0 <= index <= length (0-based).
spliceIn(layers, index, layer) ==
    SubSeq(layers, 1, index) \o <<layer>>
        \o SubSeq(layers, index + 1, Len(layers))

\* layers.splice(index, 1) for the 1-based position i.
spliceOut(layers, i) ==
    SubSeq(layers, 1, i - 1) \o SubSeq(layers, i + 1, Len(layers))

\* addLayer(layer, index); index = -1 stands for an omitted argument.
addLayer(r, layer, index) ==
    requestRender([r EXCEPT !.layers = IF index # -1
                                       THEN spliceIn(@, index, layer)
                                       ELSE Append(@, layer)])

removeLayer(r, name) ==
    LET i == findIndex(r.layers, name)
    IN  IF i # 0 THEN requestRender([r EXCEPT !.layers = spliceOut(@, i)])
        ELSE r

setLayerVisible(r, name, visible) ==
    LET i == findIndex(r.layers, name)
    IN  IF i # 0
        THEN requestRender([r EXCEPT !.layers[i].visible = visible])
        ELSE r

\* Whether layer.render(renderCtx) of a built-in layer calls timeToX for
\* the state it is given (the background's grid lines come from
\* generateGridLines and are not counted).
callsTimeToX(name, state) ==
    CASE name = "playhead" -> TRUE
      [] name = "zoom-selection" ->
             state.zoomSelectionStart # Null /\ state.zoomSelectionEnd # Null
      [] name = "hover" ->
             state.hoveredTime # Null /\ state.isDragging = "none"
      [] OTHER -> FALSE

\* What layer.render(renderCtx) does to the renderer, apart from drawing:
\* it scales the drawing context by the layer's factor and, when the layer
\* has a sets value, calls renderer.setState with a copy of renderCtx.state
\* whose viewEnd is that value.
layerRender(r, layer, state) ==
    LET scaled == [r EXCEPT !.ctx.scale = @ * layer.factor]
    IN  IF layer.sets = Null THEN scaled
        ELSE setState(scaled, [state EXCEPT !.viewEnd = layer.sets])

\* The entry of layer.render(renderCtx) in the frame's history: the layer,
\* the drawing context on entry, the view window and width of renderCtx
\* (context) and those its timeToX and xToTime map by (transform).
layerCall(r, layer, state, w) ==
    [name |-> layer.name, scale |-> r.ctx.scale, depth |-> Len(r.ctx.stack),
     timeToX |-> callsTimeToX(layer.name, state),
     context |-> <<state.viewStart, state.viewEnd, w>>,
     transform |-> <<r._state.viewStart, r._state.viewEnd, r._width>>]

\* layer.render(renderCtx) of a visible layer without the save/restore
\* pair around it.
renderLayerUnbracketed(r, layer, state, w) ==
    IF layer.visible
    THEN LET entered == [r EXCEPT !.calls =
                             Append(@, layerCall(r, layer, state, w))]
         IN  layerRender(entered, layer, state)
    ELSE r

\* The body of the loop of render for one layer: if it is visible,
\* ctx.save(), layer.render(renderCtx), ctx.restore().
renderLayer(r, layer, state, w) ==
    IF layer.visible
    THEN LET saved == [r EXCEPT !.ctx.stack = Append(@, r.ctx.scale)]
             entered == [saved EXCEPT !.calls =
                             Append(@, layerCall(saved, layer, state, w))]
             drawn == layerRender(entered, layer, state)
         IN  [drawn EXCEPT
                  !.ctx.scale = drawn.ctx.stack[Len(drawn.ctx.stack)],
                  !.ctx.stack = SubSeq(@, 1, Len(drawn.ctx.stack) - 1)]
    ELSE r

\* The loop of render over the layers from position i on.  state and w are
\* the state and width of renderCtx, read once at the top of render; the
\* renderer after each layer is a value of a one-element set so that it
\* is computed once.
RECURSIVE renderLayers(_, _, _, _)
renderLayers(r, i, state, w) ==
    IF i > Len(r.layers) THEN r
    ELSE CHOOSE done \in
             {renderLayers(next, i + 1, state, w) :
                  next \in {renderLayer(r, r.layers[i], state, w)}} : TRUE

\* render(): one frame for the state the renderer holds.
render(r) ==
    LET started == [r EXCEPT !.animationFrame = 0, !.calls = <<>>]
    IN  IF r._width = 0 \/ r._height = 0 THEN started
        ELSE LET saved == [started EXCEPT
                               !.ctx.stack = Append(@, r.ctx.scale),
                               !.ctx.scale = @ * r.dpr,
                               !.drawn = <<r._state>>]
                 done == renderLayers(saved, 1, r._state, r._width)
             IN  [done EXCEPT
                      !.ctx.scale = done.ctx.stack[Len(done.ctx.stack)],
                      !.ctx.stack = SubSeq(@, 1, Len(done.ctx.stack) - 1)]

destroyKeepsFrame(r) == [r EXCEPT !.animationFrame = 0]

\* destroy(): cancelAnimationFrame takes the callback out of the queue.
destroy(r) ==
    IF r.animationFrame # 0
    THEN [r EXCEPT !.animationFrame = 0, !.frames = @ - 1]
    ELSE r

\* ---------------------------------------------------- renderer transforms
\* TimelineRenderer.pixelToTime / timeToPixel; the renderer's _state is the
\* snapshot the component holds in currentState.
pixelToTime(x) ==
    mapRange(x, Num(0), Num(renderer._width), renderer._state.viewStart,
             renderer._state.viewEnd)

timeToPixel(time) ==
    mapRange(time, renderer._state.viewStart, renderer._state.viewEnd,
             Num(0), Num(renderer._width))

\* hitTest(x).  With a zero-width view timeToPixel divides by zero, the
\* result is NaN or an infinity and the comparison is false.
hitTest(x) ==
    IF currentState.viewStart = currentState.viewEnd THEN "track"
    ELSE IF Lt(MathAbs(Sub(x, timeToPixel(currentState.currentTime))),
               playheadHitTolerance)
         THEN "playhead"
         ELSE "track"

\* ---------------------------------------------------------------- Init
\* The state after the component is mounted: the store is empty, the
\* mount-time updateXPositions has been flushed, the component holds the
\* snapshot it received from subscribe.
Init ==
    /\ dataStart = Num(0) /\ dataEnd = Num(0)
    /\ viewStart = Num(0) /\ viewEnd = Num(0)
    /\ currentTime = Num(0)
    /\ leftX = Num(0) /\ rightX = Num(width)
    /\ hoveredTime = Null
    /\ isDragging = "none"
    /\ zoomSelectionStart = Null /\ zoomSelectionEnd = Null
    /\ notifyScheduled = FALSE
    /\ microtasks = 0
    /\ currentState = [initialState EXCEPT !.rightX = Num(width)]
    /\ panStartX = Num(0)
    /\ panStartViewStart = Num(0)
    /\ panStartViewEnd = Num(0)
    /\ zoomStartX = Num(0)
    /\ renderer = setState(resize(TimelineRenderer, width, height),
                           currentState)
    /\ viewChange = <<>>
    /\ timeChange = <<>>
    /\ subscribers = {"component"}
    /\ hostState = <<>>
    /\ delivered = <<"component">>
    /\ burst = 0
    /\ nOps = 0
    /\ lastOp = <<"mount">>

componentVars == <<currentState, panStartX, panStartViewStart,
                   panStartViewEnd, zoomStartX, renderer, subscriberVars>>

\* ------------------------------------------ host calls of the store API
HostInitialize(endTime, startTime) ==
    /\ Commit(initialize(Cur, endTime, startTime))
    /\ lastOp' = <<"initialize", endTime, startTime>>
    /\ UNCHANGED <<componentVars, nOps>>

HostReset ==
    /\ Commit(reset(Cur))
    /\ lastOp' = <<"reset">>
    /\ UNCHANGED <<componentVars, nOps>>

HostSetCurrentTime(time) ==
    /\ Commit(setCurrentTime(Cur, time))
    /\ lastOp' = <<"setCurrentTime", time>>
    /\ UNCHANGED <<componentVars, nOps>>

HostSetView(start, end) ==
    /\ nOps < MaxOps
    /\ Commit(setView(Cur, start, end))
    /\ nOps' = nOps + 1
    /\ lastOp' = <<"setView", start, end>>
    /\ UNCHANGED componentVars

\* zoomAtPoint divides by the current view duration: the call is modelled
\* for a view of non-zero width only.
HostZoom(factor, centerTime) ==
    /\ nOps < MaxOps
    /\ viewStart # viewEnd
    /\ Commit(zoom(Cur, factor, centerTime))
    /\ nOps' = nOps + 1
    /\ lastOp' = <<"zoom", factor, centerTime>>
    /\ UNCHANGED componentVars

HostZoomToFit ==
    /\ Commit(zoomToFit(Cur))
    /\ lastOp' = <<"zoomToFit">>
    /\ UNCHANGED <<componentVars, nOps>>

HostPan(deltaTime) ==
    /\ nOps < MaxOps
    /\ Commit(pan(Cur, deltaTime))
    /\ nOps' = nOps + 1
    /\ lastOp' = <<"pan", deltaTime>>
    /\ UNCHANGED componentVars

HostSetHover(time) ==
    /\ Commit(setHover(Cur, time))
    /\ lastOp' = <<"setHover", time>>
    /\ UNCHANGED <<componentVars, nOps>>

HostSetDragging(target) ==
    /\ Commit(setDragging(Cur, target))
    /\ lastOp' = <<"setDragging", target>>
    /\ UNCHANGED <<componentVars, nOps>>

HostSetZoomSelection(start, end) ==
    /\ Commit(setZoomSelection(Cur, start, end))
    /\ lastOp' = <<"setZoomSelection", start, end>>
    /\ UNCHANGED <<componentVars, nOps>>

HostApplyZoomSelection ==
    /\ Commit(applyZoomSelection(Cur))
    /\ lastOp' = <<"applyZoomSelection">>
    /\ UNCHANGED <<componentVars, nOps>>

\* ------------------------------------------------ the microtask flush
\* A step in which the component calls neither onViewChange nor
\* onTimeChange.
NoCallback == viewChange' = <<>> /\ timeChange' = <<>>

\* for (const subscriber of subscribers): the subscribers a flush invokes,
\* in insertion order (the component subscribes at mount, before the host).
invoked(subs) == SelectSeq(<<"component", "host">>, LAMBDA s : s \in subs)

\* subscribe(fn) by the host without the immediate call of fn.
subscribeDeferred(s, state) ==
    [s EXCEPT !.subscribers = @ \cup {"host"}, !.delivered = <<>>]

\* subscribe(fn) by the host, on s = [subscribers, hostState, delivered]:
\* subscribers.add(fn), then fn(getState()).
subscribe(s, state) ==
    [subscribers |-> s.subscribers \cup {"host"},
     hostState |-> <<state>>,
     delivered |-> <<"host">>]

\* An unsubscribe handle that leaves the subscriber in the set.
unsubscribeKeeps(subs) == subs

\* The handle returned by subscribe(fn): subscribers.delete(fn).
unsubscribe(subs) == subs \ {"host"}

\* The queued callback when the host's subscriber calls
\* store.setCurrentTime(time), with the flag cleared after the subscribers
\* have run.
reactingFlushClearsLate(c, time) ==
    [setCurrentTime([c EXCEPT !.microtasks = @ - 1, !.burst = 0], time)
         EXCEPT !.notifyScheduled = FALSE]

\* The store after the queued callback when the host's subscriber calls
\* store.setCurrentTime(time) from inside it: the flag is cleared before
\* the subscribers run, so the call schedules a new flush.
reactingFlush(c, time) ==
    setCurrentTime([c EXCEPT !.notifyScheduled = FALSE,
                             !.microtasks = @ - 1, !.burst = 0], time)

\* The callback queued by notifySubscribers: clears the flag and hands
\* getState() to the subscriber, which stores it (currentState = state)
\* and passes it to the renderer (renderer.setState(state)).
Flush ==
    /\ microtasks > 0
    /\ notifyScheduled' = FALSE
    /\ microtasks' = microtasks - 1
    /\ currentState' = getState
    /\ renderer' = setState(renderer, getState)
    /\ hostState' = IF "host" \in subscribers THEN <<getState>>
                    ELSE hostState
    /\ delivered' = invoked(subscribers)
    /\ NoCallback
    /\ burst' = 0
    /\ lastOp' = <<"flush">>
    /\ UNCHANGED <<storeVars, panStartX, panStartViewStart, panStartViewEnd,
                   zoomStartX, subscribers, nOps>>

\* A flush during which the host's subscriber calls
\* store.setCurrentTime(time); every subscriber gets the snapshot taken
\* before that call.
FlushReacting(time) ==
    /\ microtasks > 0
    /\ "host" \in subscribers
    /\ nOps < MaxOps
    /\ Commit(reactingFlush(Cur, time))
    /\ currentState' = getState
    /\ renderer' = setState(renderer, getState)
    /\ hostState' = <<getState>>
    /\ delivered' = invoked(subscribers)
    /\ nOps' = nOps + 1
    /\ lastOp' = <<"flush", "setCurrentTime", time>>
    /\ UNCHANGED <<panStartX, panStartViewStart, panStartViewEnd, zoomStartX,
                   subscribers>>

\* store.subscribe(fn) by the host.
Subscribe ==
    /\ LET s == subscribe([subscribers |-> subscribers,
                           hostState |-> hostState,
                           delivered |-> delivered], getState)
       IN  /\ subscribers' = s.subscribers
           /\ hostState' = s.hostState
           /\ delivered' = s.delivered
    /\ NoCallback
    /\ lastOp' = <<"subscribe">>
    /\ UNCHANGED <<storeVars, notifyScheduled, microtasks, currentState,
                   panStartX, panStartViewStart, panStartViewEnd, zoomStartX,
                   renderer, burst, nOps>>

\* The host calls the unsubscribe handle.
Unsubscribe ==
    /\ subscribers' = unsubscribe(subscribers)
    /\ NoCallback
    /\ lastOp' = <<"unsubscribe">>
    /\ UNCHANGED <<storeVars, notifyScheduled, microtasks, currentState,
                   panStartX, panStartViewStart, panStartViewEnd, zoomStartX,
                   renderer, hostState, delivered, burst, nOps>>

\* ------------------------------------------------ writes to a snapshot
\* The holder of a snapshot returned by getState() assigns one of its
\* fields (the fields of TimelineState are not readonly).  The component
\* hands the renderer the very object it keeps in currentState.
SnapshotWrite(time) ==
    /\ currentState' = [currentState EXCEPT !.currentTime = time]
    /\ renderer' = [renderer EXCEPT !._state.currentTime = time]
    /\ lastOp' = <<"snapshotWrite", time>>
    /\ NoCallback
    /\ UNCHANGED <<storeVars, notifyScheduled, microtasks, panStartX,
                   panStartViewStart, panStartViewEnd, zoomStartX,
                   subscriberVars, burst, nOps>>

\* ------------------------------------------- TimelineCanvas: handlers
\* The store effect of each handler, as a function of the store c at the
\* start of the handler; currentState is the component's snapshot.

\* onViewChange?.(viewStart, viewEnd): the handler's view-change callback.
onViewChange(c, start, end) == [c EXCEPT !.viewChange = <<start, end>>]

\* onTimeChange?.(time): the handler's time-change callback (onSeek in the
\* component written against the singleton store).
onTimeChange(c, time) == [c EXCEPT !.timeChange = <<time>>]

\* setCurrentTime(time) of the component: store.setCurrentTime, then the
\* onTimeChange callback.
syncCurrentTime(c, time) == onTimeChange(setCurrentTime(c, time), time)

\* onPointerDown that looks at the pan modifier before the hit test.
onPointerDownModifierFirst(c, x, panModifier) ==
    LET time == pixelToTime(x)
    IN  IF panModifier THEN setDragging(c, "pan")
        ELSE IF hitTest(x) = "playhead" THEN setDragging(c, "playhead")
        ELSE setZoomSelection(setDragging(c, "zoom-region"), time, time)

onPointerDown(c, x, panModifier) ==
    LET time == pixelToTime(x)
    IN  IF hitTest(x) = "playhead" THEN setDragging(c, "playhead")
        ELSE IF panModifier THEN setDragging(c, "pan")
        ELSE setZoomSelection(setDragging(c, "zoom-region"), time, time)

onPointerMoveHoverAlways(c, x, insideY) ==
    setHover(c, IF insideY THEN pixelToTime(x) ELSE Null)

onPointerMove(c, x, insideY) ==
    LET time == pixelToTime(x)
    IN  CASE currentState.isDragging = "playhead" ->
               syncCurrentTime(c, time)
          [] currentState.isDragging = "pan" ->
               LET deltaX == Sub(x, panStartX)
                   viewDuration == Sub(panStartViewEnd, panStartViewStart)
                   deltaTime == Neg(Mul(Div(deltaX, Num(renderer._width)),
                                        viewDuration))
                   newStart == Add(panStartViewStart, deltaTime)
                   newEnd == Add(panStartViewEnd, deltaTime)
                   moved == setView(c, newStart, newEnd)
               IN  onViewChange(moved, moved.st.viewStart, moved.st.viewEnd)
          [] currentState.isDragging = "zoom-region" ->
               setZoomSelection(c, currentState.zoomSelectionStart, time)
          [] OTHER ->
               IF insideY THEN setHover(c, time) ELSE setHover(c, Null)

\* onPointerMove of the component written against the singleton
\* timelineStore (a default instance of the same store): as onPointerMove,
\* except that the pan case hands onViewChange the newStart and newEnd it
\* computed, not what the store holds after setView.
singletonOnPointerMove(c, x, insideY) ==
    LET time == pixelToTime(x)
    IN  CASE currentState.isDragging = "playhead" ->
               syncCurrentTime(c, time)
          [] currentState.isDragging = "pan" ->
               LET deltaX == Sub(x, panStartX)
                   viewDuration == Sub(panStartViewEnd, panStartViewStart)
                   deltaTime == Neg(Mul(Div(deltaX, Num(renderer._width)),
                                        viewDuration))
                   newStart == Add(panStartViewStart, deltaTime)
                   newEnd == Add(panStartViewEnd, deltaTime)
               IN  onViewChange(setView(c, newStart, newEnd), newStart,
                                newEnd)
          [] currentState.isDragging = "zoom-region" ->
               setZoomSelection(c, currentState.zoomSelectionStart, time)
          [] OTHER ->
               IF insideY THEN setHover(c, time) ELSE setHover(c, Null)

onPointerUpAlwaysClick(c, x) ==
    IF currentState.isDragging = "none" THEN c
    ELSE IF currentState.isDragging = "zoom-region"
         THEN setDragging(
                  setZoomSelection(syncCurrentTime(c, pixelToTime(x)),
                                   Null, Null),
                  "none")
         ELSE setDragging(c, "none")

onPointerUpAlwaysApply(c, x) ==
    IF currentState.isDragging = "none" THEN c
    ELSE IF currentState.isDragging = "zoom-region"
         THEN applyZoomSelection(c)
         ELSE setDragging(c, "none")

\* onPointerUp that treats a dragged selection no longer than
\* minZoomSelectionThreshold as a click and seeks.
onPointerUpSeeksShortSelection(c, x) ==
    IF currentState.isDragging = "none" THEN c
    ELSE IF currentState.isDragging = "zoom-region"
         THEN LET dragDistance == MathAbs(Sub(x, zoomStartX))
                  short == \/ c.st.zoomSelectionStart = Null
                           \/ c.st.zoomSelectionEnd = Null
                           \/ Le(MathAbs(Sub(c.st.zoomSelectionEnd,
                                             c.st.zoomSelectionStart)),
                                 minZoomSelectionThreshold)
              IN  IF Lt(dragDistance, dragThreshold) \/ short
                  THEN setDragging(
                           setZoomSelection(
                               syncCurrentTime(c, pixelToTime(x)),
                               Null, Null),
                           "none")
                  ELSE LET applied == applyZoomSelection(c)
                       IN  onViewChange(applied, applied.st.viewStart,
                                        applied.st.viewEnd)
         ELSE setDragging(c, "none")

onPointerUp(c, x) ==
    IF currentState.isDragging = "none" THEN c
    ELSE IF currentState.isDragging = "zoom-region"
         THEN LET dragDistance == MathAbs(Sub(x, zoomStartX))
              IN  IF Lt(dragDistance, dragThreshold)
                  THEN setDragging(
                           setZoomSelection(
                               syncCurrentTime(c, pixelToTime(x)),
                               Null, Null),
                           "none")
                  ELSE LET applied == applyZoomSelection(c)
                       IN  onViewChange(applied, applied.st.viewStart,
                                        applied.st.viewEnd)
         ELSE setDragging(c, "none")

onPointerLeave(c) ==
    IF currentState.isDragging = "none" THEN setHover(c, Null) ELSE c

\* onWheel with the two zoom factors exchanged.
onWheelSwappedFactors(c, x, zoomModifier, deltaX, deltaY) ==
    LET centerTime == pixelToTime(x)
        viewDuration == Sub(currentState.viewEnd, currentState.viewStart)
        delta == IF Lt(MathAbs(deltaY), MathAbs(deltaX))
                 THEN deltaX ELSE deltaY
        panAmount == Mul(Mul(Div(delta, Num(renderer._width)),
                             viewDuration), Q(1, 2))
        moved == IF zoomModifier
                 THEN zoom(c, IF deltaY.n > 0 THEN wheelZoomIn
                              ELSE wheelZoomOut, centerTime)
                 ELSE pan(c, panAmount)
    IN  onViewChange(moved, moved.st.viewStart, moved.st.viewEnd)

onWheel(c, x, zoomModifier, deltaX, deltaY) ==
    LET centerTime == pixelToTime(x)
        viewDuration == Sub(currentState.viewEnd, currentState.viewStart)
        delta == IF Lt(MathAbs(deltaY), MathAbs(deltaX))
                 THEN deltaX ELSE deltaY
        panAmount == Mul(Mul(Div(delta, Num(renderer._width)),
                             viewDuration), Q(1, 2))
        moved == IF zoomModifier
                 THEN zoom(c, IF deltaY.n > 0 THEN wheelZoomOut
                              ELSE wheelZoomIn, centerTime)
                 ELSE pan(c, panAmount)
    IN  onViewChange(moved, moved.st.viewStart, moved.st.viewEnd)

\* ----------------------------------------------- input events (actions)
\* An event handler runs as a task of its own: the microtask queue is
\* empty when it starts, so currentState is the store's state.
PointerDown(x, panModifier) ==
    /\ microtasks = 0
    /\ nOps < MaxOps
    /\ Commit(onPointerDown(Cur, x, panModifier))
    /\ IF hitTest(x) = "track" /\ panModifier
       THEN /\ panStartX' = x
            /\ panStartViewStart' = currentState.viewStart
            /\ panStartViewEnd' = currentState.viewEnd
       ELSE UNCHANGED <<panStartX, panStartViewStart, panStartViewEnd>>
    /\ zoomStartX' = IF hitTest(x) = "track" /\ ~panModifier
                     THEN x ELSE zoomStartX
    /\ nOps' = nOps + 1
    /\ lastOp' = <<"pointerDown", x, panModifier>>
    /\ UNCHANGED <<currentState, renderer, subscriberVars>>

PointerMove(x, insideY) ==
    /\ microtasks = 0
    /\ Commit(onPointerMove(Cur, x, insideY))
    /\ lastOp' = <<"pointerMove", x, insideY>>
    /\ UNCHANGED <<componentVars, nOps>>

SingletonPointerMove(x, insideY) ==
    /\ microtasks = 0
    /\ Commit(singletonOnPointerMove(Cur, x, insideY))
    /\ lastOp' = <<"pointerMove", x, insideY>>
    /\ UNCHANGED <<componentVars, nOps>>

PointerUp(x) ==
    /\ microtasks = 0
    /\ Commit(onPointerUp(Cur, x))
    /\ lastOp' = <<"pointerUp", x>>
    /\ UNCHANGED <<componentVars, nOps>>

PointerLeave ==
    /\ microtasks = 0
    /\ Commit(onPointerLeave(Cur))
    /\ lastOp' = <<"pointerLeave">>
    /\ UNCHANGED <<componentVars, nOps>>

\* The pointer is cancelled or its capture is lost while over the canvas.
\* The canvas binds no pointercancel or lostpointercapture handler; the
\* pointerleave the browser dispatches after the cancel runs onPointerLeave.
PointerCancel ==
    /\ microtasks = 0
    /\ Commit(onPointerLeave(Cur))
    /\ lastOp' = <<"pointerCancel">>
    /\ UNCHANGED <<componentVars, nOps>>

Wheel(x, zoomModifier, deltaX, deltaY) ==
    /\ microtasks = 0
    /\ nOps < MaxOps
    /\ zoomModifier => viewStart # viewEnd
    /\ Commit(onWheel(Cur, x, zoomModifier, deltaX, deltaY))
    /\ nOps' = nOps + 1
    /\ lastOp' = <<"wheel", x, zoomModifier, deltaX, deltaY>>
    /\ UNCHANGED componentVars

\* ------------------------------------------------------ renderer calls
\* What a call on the renderer, or a frame, leaves alone.
pipelineVars == <<storeVars, notifyScheduled, microtasks, currentState,
                  panStartX, panStartViewStart, panStartViewEnd, zoomStartX,
                  subscriberVars, burst>>

\* The ResizeObserver callback of the component: renderer.resize(w, h).
Resize(w, h) ==
    /\ renderer' = resize(renderer, w, h)
    /\ NoCallback
    /\ lastOp' = <<"resize", w, h>>
    /\ UNCHANGED <<pipelineVars, nOps>>

\* getRenderer().addLayer(layer, index) by the host.
AddLayer(layer, index) ==
    /\ nOps < MaxOps
    /\ renderer' = addLayer(renderer, layer, index)
    /\ NoCallback
    /\ nOps' = nOps + 1
    /\ lastOp' = <<"addLayer", layer.name, index>>
    /\ UNCHANGED pipelineVars

RemoveLayer(name) ==
    /\ nOps < MaxOps
    /\ renderer' = removeLayer(renderer, name)
    /\ NoCallback
    /\ nOps' = nOps + 1
    /\ lastOp' = <<"removeLayer", name>>
    /\ UNCHANGED pipelineVars

SetLayerVisible(name, visible) ==
    /\ nOps < MaxOps
    /\ renderer' = setLayerVisible(renderer, name, visible)
    /\ NoCallback
    /\ nOps' = nOps + 1
    /\ lastOp' = <<"setLayerVisible", name, visible>>
    /\ UNCHANGED pipelineVars

RequestRender ==
    /\ renderer' = requestRender(renderer)
    /\ NoCallback
    /\ lastOp' = <<"requestRender">>
    /\ UNCHANGED <<pipelineVars, nOps>>

\* A display-refresh tick: the host runs the callbacks of this renderer
\* in its animation-frame queue, each one render() for the state the
\* renderer was last given.
Frame ==
    /\ renderer.frames > 0
    /\ LET taken == [renderer EXCEPT
                         !.frames = 0, !.requests = 0,
                         !.tick = [requests |-> renderer.requests,
                                   renders |-> renderer.frames]]
       IN  renderer' = render(taken)
    /\ NoCallback
    /\ lastOp' = <<"frame">>
    /\ UNCHANGED <<pipelineVars, nOps>>

\* getRenderer().destroy().
Destroy ==
    /\ renderer' = destroy(renderer)
    /\ NoCallback
    /\ lastOp' = <<"destroy">>
    /\ UNCHANGED <<pipelineVars, nOps>>

\* ---------------------------------------------------------------- Next
\* Gestures on a mounted component whose host initializes the timeline.
Next ==
    \/ microtasks = 0 /\ HostInitialize(Num(100), Num(0))
    \/ Flush
    \/ \E x \in DownXs, m \in BOOLEAN : PointerDown(x, m)
    \/ \E x \in MoveXs : PointerMove(x, TRUE)
    \/ PointerMove(Num(40), FALSE)
    \/ \E x \in PixelXs : PointerUp(x)
    \/ PointerLeave

Spec == Init /\ [][Next]_vars

\* The store API alone, each host call in a task of its own.
HostCall ==
    \/ \E e \in EndTimes, s \in StartTimes : HostInitialize(e, s)
    \/ HostReset
    \/ \E t \in TimeArgs : HostSetCurrentTime(t)
    \/ \E v \in ViewArgs : HostSetView(v[1], v[2])
    \/ \E z \in ZoomArgs : HostZoom(z[1], z[2])
    \/ HostZoomToFit
    \/ \E d \in PanArgs : HostPan(d)
    \/ \E t \in {Num(30), Null} : HostSetHover(t)
    \/ \E g \in DragTargets : HostSetDragging(g)
    \/ \E z \in SelectionArgs : HostSetZoomSelection(z[1], z[2])
    \/ HostApplyZoomSelection

NextStore == (microtasks = 0 /\ HostCall) \/ Flush

SpecStore == Init /\ [][NextStore]_vars

\* View-changing operations together: pan drags, drag-to-zoom, wheel
\* events and host calls of the view API.
ViewMoveXs == {Num(40), Num(130)}

NextView ==
    \/ microtasks = 0 /\ HostInitialize(Num(100), Num(0))
    \/ Flush
    \/ \E x \in DownXs, m \in BOOLEAN : PointerDown(x, m)
    \/ \E x \in ViewMoveXs : PointerMove(x, FALSE)
    \/ \E x \in PixelXs : PointerUp(x)
    \/ \E m \in BOOLEAN, w \in WheelDeltas : Wheel(Num(40), m, w[1], w[2])
    \/ microtasks = 0 /\ \E v \in ViewArgs : HostSetView(v[1], v[2])
    \/ microtasks = 0 /\ \E z \in ZoomArgs : HostZoom(z[1], z[2])
    \/ microtasks = 0 /\ HostZoomToFit
    \/ microtasks = 0 /\ \E d \in PanArgs : HostPan(d)

SpecView == Init /\ [][NextView]_vars

\* Bursts: the host makes up to MaxBurst store calls in one synchronous
\* run before the microtask queue is drained; a click gesture is a burst
\* of its own.
NextSingleton ==
    \/ microtasks = 0 /\ HostInitialize(Num(100), Num(0))
    \/ Flush
    \/ \E x \in DownXs, m \in BOOLEAN : PointerDown(x, m)
    \/ \E x \in ViewMoveXs : SingletonPointerMove(x, FALSE)
    \/ \E x \in PixelXs : PointerUp(x)
    \/ \E m \in BOOLEAN, w \in WheelDeltas : Wheel(Num(40), m, w[1], w[2])

\* Gestures on the component written against the singleton timelineStore.
SpecSingleton == Init /\ [][NextSingleton]_vars

\* A custom layer whose render() scales the drawing context by 3.
OverlayLayer ==
    [name |-> "overlay", visible |-> TRUE, factor |-> 3, sets |-> Null]
\* Index arguments of addLayer: omitted, or position 1.
IndexArgs == {-1, 1}
RemoveArgs == {"overlay", "hover"}
VisibleArgs == {"overlay", "playhead"}
ResizeArgs == {<<0, 0>>, <<width, 0>>, <<width, height>>}

NextRender ==
    \/ microtasks = 0 /\ HostInitialize(Num(100), Num(0))
    \/ microtasks = 0 /\ HostSetHover(Num(30))
    \/ Flush
    \/ \E s \in ResizeArgs : Resize(s[1], s[2])
    \/ \E i \in IndexArgs : AddLayer(OverlayLayer, i)
    \/ \E n \in RemoveArgs : RemoveLayer(n)
    \/ \E n \in VisibleArgs, v \in BOOLEAN : SetLayerVisible(n, v)
    \/ RequestRender
    \/ Frame
    \/ Destroy

\* The render pipeline of a mounted component: layer edits, resizes,
\* state pushes, frames and teardown.
SpecRender == Init /\ [][NextRender]_vars

NextCancel ==
    \/ microtasks = 0 /\ HostInitialize(Num(100), Num(0))
    \/ Flush
    \/ \E x \in DownXs, m \in BOOLEAN : PointerDown(x, m)
    \/ PointerCancel
    \/ \E x \in MoveXs : PointerMove(x, TRUE)
    \/ \E x \in PixelXs : PointerUp(x)

\* Gestures whose pointer may be cancelled by the browser.
SpecCancel == Init /\ [][NextCancel]_vars

NextFrames ==
    \/ microtasks = 0 /\ HostInitialize(Num(100), Num(0))
    \/ microtasks = 0 /\ \E t \in TimeArgs : HostSetCurrentTime(t)
    \/ microtasks = 0 /\ HostSetHover(Num(30))
    \/ Flush
    \/ RequestRender
    \/ Frame

\* State pushes to a laid-out renderer that is never destroyed; the host
\* keeps running the frame callbacks it was asked for.
SpecFrames == Init /\ [][NextFrames]_vars /\ WF_vars(Frame)

\* A custom layer whose render() calls renderer.setState with a copy of
\* renderCtx.state whose viewEnd is 50.
ZoomingLayer ==
    [name |-> "zooming", visible |-> TRUE, factor |-> 1, sets |-> Num(50)]

NextContext ==
    \/ microtasks = 0 /\ HostInitialize(Num(100), Num(0))
    \/ microtasks = 0 /\ HostSetHover(Num(30))
    \/ Flush
    \/ \E i \in IndexArgs : AddLayer(ZoomingLayer, i)
    \/ \E v \in BOOLEAN : SetLayerVisible("zooming", v)
    \/ RequestRender
    \/ Frame

\* Frames of a renderer one of whose layers calls back into the renderer
\* while it renders.
SpecContext == Init /\ [][NextContext]_vars

\* A microtask of the store runs.
RunMicrotask == Flush \/ \E t \in TimeArgs : FlushReacting(t)

NextSubscribers ==
    \/ microtasks = 0 /\ HostInitialize(Num(100), Num(0))
    \/ \E t \in TimeArgs : HostSetCurrentTime(t)
    \/ Subscribe
    \/ Unsubscribe
    \/ RunMicrotask

\* A host that subscribes to the store, unsubscribes, and may call the
\* store from inside its subscriber; queued microtasks always get to run.
SpecSubscribers ==
    Init /\ [][NextSubscribers]_vars /\ WF_vars(RunMicrotask)

NextBurst ==
    \/ burst < MaxBurst /\ HostInitialize(Num(100), Num(0))
    \/ burst < MaxBurst /\ \E t \in TimeArgs : HostSetCurrentTime(t)
    \/ burst < MaxBurst /\ \E v \in ViewArgs : HostSetView(v[1], v[2])
    \/ burst < MaxBurst /\ HostZoomToFit
    \/ PointerDown(Num(10), FALSE)
    \/ PointerUp(Num(12))
    \/ Flush

SpecBurst == Init /\ [][NextBurst]_vars

\* The zoom and pan API on a timeline of 120 time units: zoom about given
\* and default centers, down to the minimum duration and up to the data
\* duration, pans in both directions, a window selected through the zoom
\* selection.  The host makes up to MaxBurst calls in one synchronous run.
ZoomPointArgs == {<<Q(1, 2), Num(60)>>, <<Num(2), Num(60)>>,
                  <<Q(1, 2), Num(45)>>, <<Q(1, 200), Num(60)>>,
                  <<Q(1, 4), Num(0)>>, <<Q(1, 2), Null>>}

NextZoom ==
    \/ burst < MaxBurst /\ HostInitialize(Num(120), Num(0))
    \/ burst < MaxBurst /\ \E z \in ZoomPointArgs : HostZoom(z[1], z[2])
    \/ burst < MaxBurst /\ \E d \in PanArgs : HostPan(d)
    \/ burst < MaxBurst /\ HostZoomToFit
    \/ burst < MaxBurst /\ HostSetZoomSelection(Num(30), Num(90))
    \/ burst < MaxBurst /\ HostApplyZoomSelection
    \/ Flush

SpecZoom == Init /\ [][NextZoom]_vars

\* Snapshots: a subscriber keeps the snapshot of the last notification
\* while the host mutates the store, and writes to the snapshot it holds.
NextSnapshot ==
    \/ microtasks = 0 /\ HostInitialize(Num(100), Num(0))
    \/ microtasks = 0 /\ \E t \in TimeArgs : HostSetCurrentTime(t)
    \/ microtasks = 0 /\ \E t \in {Num(30), Null} : HostSetHover(t)
    \/ Flush
    \/ \E t \in TimeArgs : SnapshotWrite(t)

SpecSnapshot == Init /\ [][NextSnapshot]_vars

\* ================================================================ claims

\* C1 (as stated): on a timeline with dataEnd > dataStart the view window
\* always satisfies dataStart <= viewStart < viewEnd <= dataEnd.
C1_ViewStrictlyOrdered ==
    Lt(dataStart, dataEnd) =>
        /\ Le(dataStart, viewStart)
        /\ Lt(viewStart, viewEnd)
        /\ Le(viewEnd, dataEnd)

\* C1 (amended): on a timeline with dataEnd > dataStart, a view window
\* with viewStart <= viewEnd lies inside the data range; the strict order
\* viewStart < viewEnd is not maintained.
C1_ViewInsideData ==
    (Lt(dataStart, dataEnd) /\ Le(viewStart, viewEnd)) =>
        (Le(dataStart, viewStart) /\ Le(viewEnd, dataEnd))

\* A pan drag past the edge has collapsed the window of a non-empty
\* timeline to a point.
C1_Witness ==
    /\ lastOp[1] = "pointerMove"
    /\ isDragging = "pan"
    /\ Lt(dataStart, dataEnd)
    /\ viewStart = viewEnd

\* C2: the playhead always lies inside the data range.
C2_PlayheadInsideData == Le(dataStart, currentTime) /\ Le(currentTime, dataEnd)

\* C3: initialize(end, start) with end < start changes no state field, and
\* dataEnd >= dataStart in every reachable state.
C3_InvalidRangeRejected ==
    [][/\ (lastOp'[1] = "initialize" /\ Lt(lastOp'[2], lastOp'[3]))
            => UNCHANGED storeVars
       /\ Le(dataStart', dataEnd')]_vars

\* C4: right after initialize(end, start) with end >= start the data range
\* and the view are [start, end] and the playhead is at start.
C4_InitializePost ==
    (lastOp[1] = "initialize" /\ Le(lastOp[3], lastOp[2])) =>
        /\ dataStart = lastOp[3]
        /\ dataEnd = lastOp[2]
        /\ viewStart = lastOp[3]
        /\ viewEnd = lastOp[2]
        /\ currentTime = lastOp[3]

\* initialize(100, 20) on a store that had been used: view changed
\* before, a drag target and a hover still set.
C4_Witness ==
    /\ lastOp = <<"initialize", Num(100), Num(20)>>
    /\ nOps > 0
    /\ isDragging = "pan"
    /\ hoveredTime # Null
    /\ currentTime = Num(20)

\* C5: however many mutations a burst contains, exactly one flush is queued
\* while the burst runs, and once the queue is empty the subscriber holds
\* the store's final state.
C5_OneNotificationPerBurst ==
    /\ microtasks = (IF burst > 0 THEN 1 ELSE 0)
    /\ notifyScheduled = (burst > 0)
    /\ burst = 0 => currentState = getState

\* A burst of three mutations with one flush queued and the subscriber
\* still holding the state from before the burst.
C5_Witness ==
    /\ burst >= 3
    /\ microtasks = 1
    /\ currentState # getState

\* C6: releasing a zoom-region gesture less than dragThreshold pixels from
\* the pointer-down X seeks the playhead to the clamped release time,
\* leaves the view alone and clears the selection and the drag target.
C6_ClickSeeks ==
    [][(/\ lastOp'[1] = "pointerUp"
        /\ currentState.isDragging = "zoom-region"
        /\ Lt(MathAbs(Sub(lastOp'[2], zoomStartX)), dragThreshold))
       => /\ currentTime' = clamp(pixelToTime(lastOp'[2]), dataStart, dataEnd)
          /\ viewStart' = viewStart
          /\ viewEnd' = viewEnd
          /\ zoomSelectionStart' = Null
          /\ zoomSelectionEnd' = Null
          /\ isDragging' = "none"]_vars

\* Pointer down at x = 98, released at x = 102 (time 102): the playhead is
\* clamped to dataEnd = 100 and the full view is kept.
C6_Witness ==
    /\ lastOp = <<"pointerUp", Num(102)>>
    /\ zoomStartX = Num(98)
    /\ currentTime = Num(100)
    /\ viewStart = Num(0) /\ viewEnd = Num(100)
    /\ isDragging = "none"
    /\ zoomSelectionStart = Null

\* C7: a zoom-region gesture that travelled at least dragThreshold pixels to
\* the release position, with a selection wider than
\* minZoomSelectionThreshold, sets the view to the clamped [min, max] of the
\* selection, keeps currentTime and clears the selection and drag target.
C7_DragZooms ==
    [][(/\ lastOp'[1] = "pointerUp"
        /\ currentState.isDragging = "zoom-region"
        /\ ~Lt(MathAbs(Sub(lastOp'[2], zoomStartX)), dragThreshold)
        /\ zoomSelectionStart = pixelToTime(zoomStartX)
        /\ zoomSelectionEnd = pixelToTime(lastOp'[2])
        /\ Lt(minZoomSelectionThreshold,
              MathAbs(Sub(zoomSelectionEnd, zoomSelectionStart))))
       => /\ viewStart' = clamp(MathMin(zoomSelectionStart, zoomSelectionEnd),
                                dataStart, dataEnd)
          /\ viewEnd' = clamp(MathMax(zoomSelectionStart, zoomSelectionEnd),
                              dataStart, dataEnd)
          /\ currentTime' = currentTime
          /\ zoomSelectionStart' = Null
          /\ zoomSelectionEnd' = Null
          /\ isDragging' = "none"]_vars

\* The drag from time 10 to time 40 on the [0, 100] timeline.
C7_Witness ==
    /\ lastOp = <<"pointerUp", Num(40)>>
    /\ zoomStartX = Num(10)
    /\ viewStart = Num(10) /\ viewEnd = Num(40)
    /\ currentTime = Num(0)
    /\ isDragging = "none"
    /\ zoomSelectionStart = Null /\ zoomSelectionEnd = Null

\* C8: the zoom selection is null whenever the drag target is not
\* zoom-region.
C8_SelectionOnlyInZoomRegion ==
    isDragging # "zoom-region" =>
        (zoomSelectionStart = Null /\ zoomSelectionEnd = Null)

\* C9 (as stated): hoveredTime is null whenever a drag is active.
C9_NoHoverWhileDragging == isDragging # "none" => hoveredTime = Null

\* C9 (amended): no pointer move and no pointer leave handled while a drag
\* is active changes hoveredTime.
C9_DragKeepsHover ==
    [][(/\ lastOp'[1] \in {"pointerMove", "pointerLeave"}
        /\ currentState.isDragging # "none")
       => hoveredTime' = hoveredTime]_vars

\* A pointer move handled during a drag, with the hover from before the
\* drag still set.
C9_Witness ==
    /\ lastOp[1] = "pointerMove"
    /\ currentState.isDragging # "none"
    /\ isDragging # "none"
    /\ hoveredTime # Null

\* C10: applyZoomSelection sets the view to the clamped [min, max] of the
\* selection when both bounds are set and their span exceeds
\* minZoomSelectionThreshold, leaves the view alone otherwise, and in every
\* case clears the selection and the drag target and keeps currentTime.
C10_ApplyZoomSelection ==
    [][lastOp'[1] = "applyZoomSelection" =>
        LET both == zoomSelectionStart # Null /\ zoomSelectionEnd # Null
            lo == MathMin(zoomSelectionStart, zoomSelectionEnd)
            hi == MathMax(zoomSelectionStart, zoomSelectionEnd)
        IN  /\ IF both /\ Lt(minZoomSelectionThreshold, Sub(hi, lo))
               THEN /\ viewStart' = clamp(lo, dataStart, dataEnd)
                    /\ viewEnd' = clamp(hi, dataStart, dataEnd)
               ELSE /\ viewStart' = viewStart
                    /\ viewEnd' = viewEnd
            /\ zoomSelectionStart' = Null
            /\ zoomSelectionEnd' = Null
            /\ isDragging' = "none"
            /\ currentTime' = currentTime]_vars

\* applyZoomSelection of the selection (30, 110) on [0, 100]: view [30, 100].
C10_Witness ==
    /\ lastOp[1] = "applyZoomSelection"
    /\ dataStart = Num(0) /\ dataEnd = Num(100)
    /\ viewStart = Num(30) /\ viewEnd = Num(100)
    /\ isDragging = "none"
    /\ zoomSelectionStart = Null /\ zoomSelectionEnd = Null

C12_SetViewClampsEach ==
    [][lastOp'[1] = "setView" =>
        LET start == lastOp'[2]
            end == lastOp'[3]
            Into(v) == IF Lt(v, dataStart) THEN dataStart
                       ELSE IF Lt(dataEnd, v) THEN dataEnd ELSE v
        IN  /\ viewStart' = clamp(start, dataStart, dataEnd)
            /\ viewEnd' = clamp(end, dataStart, dataEnd)
            /\ Le(dataStart, dataEnd) =>
                   (viewStart' = Into(start) /\ viewEnd' = Into(end))
            /\ dataStart' = dataStart /\ dataEnd' = dataEnd]_vars

\* setView(-10, 50) on the [0, 100] timeline gives the view [0, 50].
C12_Witness ==
    /\ lastOp = <<"setView", Num(-10), Num(50)>>
    /\ dataStart = Num(0) /\ dataEnd = Num(100)
    /\ viewStart = Num(0) /\ viewEnd = Num(50)

\* C13: setCurrentTime(t) sets currentTime to clamp(t, dataStart, dataEnd)
\* and changes no other field; a second setCurrentTime(t) right after the
\* first changes no field at all.
C13_SetCurrentTime ==
    [][lastOp'[1] = "setCurrentTime" =>
        /\ currentTime' = clamp(lastOp'[2], dataStart, dataEnd)
        /\ Le(dataStart, dataEnd) =>
               (Le(dataStart, currentTime') /\ Le(currentTime', dataEnd))
        /\ UNCHANGED <<dataStart, dataEnd, viewStart, viewEnd, leftX, rightX,
                       hoveredTime, isDragging, zoomSelectionStart,
                       zoomSelectionEnd>>
        /\ lastOp = lastOp' => UNCHANGED storeVars]_vars

\* setCurrentTime(110) as the second mutation of a burst on the [0, 100]
\* timeline whose playhead was at 0 before the burst: the playhead is at
\* 100.
C13_Witness ==
    /\ lastOp = <<"setCurrentTime", Num(110)>>
    /\ burst = 2
    /\ dataEnd = Num(100)
    /\ currentState.currentTime = Num(0)
    /\ currentTime = Num(100)

C15_ZoomKeepsCenterRatio ==
    [][(lastOp'[1] = "zoom" /\ Lt(viewStart, viewEnd)) =>
        LET center == IF lastOp'[3] = Null
                      THEN Div(Add(viewStart, viewEnd), Num(2))
                      ELSE lastOp'[3]
            duration == Sub(viewEnd, viewStart)
            newDuration == Mul(lastOp'[2], duration)
            ratio == Div(Sub(center, viewStart), duration)
            rawStart == Sub(center, Mul(ratio, newDuration))
            free == /\ Le(minZoomDuration, newDuration)
                    /\ Le(dataStart, rawStart)
                    /\ Le(Add(rawStart, newDuration), dataEnd)
        IN  free => /\ Lt(viewStart', viewEnd')
                    /\ Div(Sub(center, viewStart'),
                           Sub(viewEnd', viewStart')) = ratio]_vars

\* zoom(0.5, 45) of the window [30, 90]: time 45 stays a quarter into the
\* window, which becomes [37.5, 67.5].
C15_Witness ==
    /\ lastOp = <<"zoom", Q(1, 2), Num(45)>>
    /\ burst = 1
    /\ currentState.viewStart = Num(30) /\ currentState.viewEnd = Num(90)
    /\ viewStart = Q(75, 2) /\ viewEnd = Q(135, 2)

\* C16: store.pan(d) of a window with viewStart <= viewEnd, called by the
\* host or by the wheel pan, leaves viewEnd - viewStart unchanged and the
\* window inside [dataStart, dataEnd]: at an edge the window is
\* translated, not shrunk.
C16_PanTranslates ==
    [][(/\ lastOp'[1] = "pan" \/ (lastOp'[1] = "wheel" /\ ~lastOp'[3])
        /\ Le(viewStart, viewEnd)) =>
        /\ Sub(viewEnd', viewStart') = Sub(viewEnd, viewStart)
        /\ Le(dataStart, viewStart')
        /\ Le(viewEnd', dataEnd)]_vars

\* pan(-20) of the window [0, 50] set by setView(-10, 50): the window is
\* at the left edge already and stays [0, 50].
C16_Witness ==
    /\ lastOp = <<"pan", Num(-20)>>
    /\ currentState.viewStart = Num(0) /\ currentState.viewEnd = Num(50)
    /\ dataStart = Num(0) /\ dataEnd = Num(100)
    /\ viewStart = Num(0) /\ viewEnd = Num(50)

\* C17: pan(d) followed at once by pan(-d) restores viewStart and viewEnd
\* whenever the window translated by d lies inside [dataStart, dataEnd]
\* (then neither pan is limited by an edge).
C17_PanRoundTrip ==
    [][(/\ burst = 1
        /\ lastOp[1] = "pan"
        /\ lastOp'[1] = "pan"
        /\ lastOp'[2] = Neg(lastOp[2])
        /\ Le(dataStart, currentState.viewStart)
        /\ Le(currentState.viewEnd, dataEnd)
        /\ Le(dataStart, Add(currentState.viewStart, lastOp[2]))
        /\ Le(Add(currentState.viewEnd, lastOp[2]), dataEnd))
       => /\ viewStart' = currentState.viewStart
          /\ viewEnd' = currentState.viewEnd]_vars

\* pan(20), pan(-20) in one burst from the window [30, 90] of the
\* [0, 120] timeline: the window is [30, 90] again.
C17_Witness ==
    /\ lastOp = <<"pan", Num(-20)>>
    /\ burst = 2
    /\ nOps = 2
    /\ currentState.viewStart = Num(30) /\ currentState.viewEnd = Num(90)
    /\ currentState.zoomSelectionStart = Null
    /\ dataEnd = Num(120)
    /\ viewStart = Num(30) /\ viewEnd = Num(90)

\* C18: zoomToFit(), from any state reached by zoom, pan, setView and the
\* gestures, sets the view to [dataStart, dataEnd] and leaves currentTime,
\* the data range, the hover, the drag target and the selection unchanged.
C18_ZoomToFit ==
    [][lastOp'[1] = "zoomToFit" =>
        /\ viewStart' = dataStart
        /\ viewEnd' = dataEnd
        /\ UNCHANGED <<dataStart, dataEnd, currentTime, hoveredTime,
                       isDragging, zoomSelectionStart, zoomSelectionEnd,
                       leftX, rightX>>]_vars

\* zoomToFit() on the [0, 100] timeline with a moved playhead, while the
\* subscriber still holds a narrower window.
C18_Witness ==
    /\ lastOp = <<"zoomToFit">>
    /\ nOps > 0
    /\ Lt(Num(0), currentState.viewStart)
    /\ Lt(currentState.viewStart, currentState.viewEnd)
    /\ currentTime # Num(0)
    /\ dataStart = Num(0) /\ dataEnd = Num(100)
    /\ viewStart = Num(0) /\ viewEnd = Num(100)

\* C19: reset() sets dataStart, dataEnd, viewStart, viewEnd and
\* currentTime to 0, hoveredTime and both selection bounds to null and the
\* drag target to none, and keeps leftX and rightX.
C19_Reset ==
    [][lastOp'[1] = "reset" =>
        /\ dataStart' = Num(0) /\ dataEnd' = Num(0)
        /\ viewStart' = Num(0) /\ viewEnd' = Num(0)
        /\ currentTime' = Num(0)
        /\ hoveredTime' = Null
        /\ zoomSelectionStart' = Null /\ zoomSelectionEnd' = Null
        /\ isDragging' = "none"
        /\ leftX' = leftX /\ rightX' = rightX]_vars

\* reset() of a store that held data, a moved view and playhead, a hover,
\* a drag target and a selection; rightX is still the surface width.
C19_Witness ==
    /\ lastOp = <<"reset">>
    /\ currentState.dataEnd = Num(100)
    /\ currentState.viewEnd # Num(100)
    /\ currentState.currentTime = Num(30)
    /\ currentState.hoveredTime # Null
    /\ currentState.isDragging = "pan"
    /\ currentState.zoomSelectionStart # Null
    /\ dataEnd = Num(0) /\ viewEnd = Num(0) /\ currentTime = Num(0)
    /\ hoveredTime = Null /\ isDragging = "none"
    /\ zoomSelectionStart = Null
    /\ rightX = Num(width)

ViewChangingStep ==
    /\ lastOp # <<>>
    /\ \/ lastOp[1] = "pointerMove" /\ currentState.isDragging = "pan"
       \/ lastOp[1] = "wheel"
       \/ /\ lastOp[1] = "pointerUp"
          /\ currentState.isDragging = "zoom-region"
          /\ Le(dragThreshold, MathAbs(Sub(lastOp[2], zoomStartX)))

\* C21: every gesture step that changes the view window makes, in the same
\* handler and after the store mutation, an onViewChange call whose
\* arguments are the store's viewStart and viewEnd after that mutation.
C21_ViewChangeReportsStore ==
    ViewChangingStep => viewChange = <<viewStart, viewEnd>>

\* ------------------------------------------------------------------ C22
\* The names of the visible layers from position i on, in list order.
RECURSIVE visibleNames(_, _)
visibleNames(layers, i) ==
    IF i > Len(layers) THEN <<>>
    ELSE IF layers[i].visible
         THEN <<layers[i].name>> \o visibleNames(layers, i + 1)
         ELSE visibleNames(layers, i + 1)

\* C22: a frame with width = 0 or height = 0 invokes no layer; otherwise
\* it invokes render once on each visible layer, in list order, skipping
\* invisible ones, each call entered inside its own save (stack depth 2)
\* with the scale at the device pixel ratio whatever the layers before it
\* did; after the frame the context's stack is empty and its scale is 1.
C22_FrameRendersVisibleLayers ==
    lastOp = <<"frame">> =>
        /\ renderer.ctx = [scale |-> 1, stack |-> <<>>]
        /\ IF renderer._width = 0 \/ renderer._height = 0
           THEN renderer.calls = <<>>
           ELSE /\ Len(renderer.calls) = Len(visibleNames(renderer.layers, 1))
                /\ \A i \in 1..Len(renderer.calls) :
                       /\ renderer.calls[i].name
                              = visibleNames(renderer.layers, 1)[i]
                       /\ renderer.calls[i].scale = renderer.dpr
                       /\ renderer.calls[i].depth = 2

\* A frame on a laid-out surface whose stack has an invisible playhead and
\* a scaling overlay right above the background.
C22_Witness ==
    /\ lastOp = <<"frame">>
    /\ renderer._width # 0 /\ renderer._height # 0
    /\ renderer.layers[2].name = "overlay"
    /\ \E i \in 1..Len(renderer.layers) :
           renderer.layers[i].name = "playhead" /\ ~renderer.layers[i].visible
    /\ Len(renderer.calls) = 4

\* ------------------------------------------------------------------ C23
\* The names of the last three layers of a stack (<<>> if it has fewer).
lastThree(layers) ==
    IF Len(layers) < 3 THEN <<>>
    ELSE [i \in 1..3 |-> layers[Len(layers) - 3 + i].name]

\* C23: addLayer without an index inserts before the playhead layer: on a
\* stack with the background first and playhead, zoom-selection and hover
\* last, such an addition leaves the background first and those three
\* last, in that order.
C23_AddedBelowPlayhead ==
    [][(/\ lastOp' = <<"addLayer", "overlay", -1>>
        /\ renderer.layers[1].name = "background"
        /\ lastThree(renderer.layers)
               = <<"playhead", "zoom-selection", "hover">>)
       => /\ renderer'.layers[1].name = "background"
          /\ lastThree(renderer'.layers)
                 = <<"playhead", "zoom-selection", "hover">>]_vars

\* ------------------------------------------------------------------ C24
\* C24: no two layers of the renderer have the same name.
C24_LayerNamesUnique ==
    \A i, j \in 1..Len(renderer.layers) :
        renderer.layers[i].name = renderer.layers[j].name => i = j

\* ------------------------------------------------------------------ C25
\* C25: at most one frame callback of the renderer is pending, one is
\* pending exactly when animationFrame is set, and a display-refresh tick
\* executes render exactly once however many requestRender calls (from
\* setState, resize, addLayer, removeLayer, setLayerVisible or the host)
\* were made since the tick before.
C25_RequestRenderCoalesces ==
    /\ renderer.frames <= 1
    /\ renderer.frames = 1 <=> renderer.animationFrame # 0
    /\ lastOp = <<"frame">> =>
           renderer.tick.requests >= 1 /\ renderer.tick.renders = 1

\* A tick that answered two or more requestRender calls with one render.
C25_Witness ==
    /\ lastOp = <<"frame">>
    /\ renderer.tick = [requests |-> 2, renders |-> 1]

\* ------------------------------------------------------------------ C29
\* C29: destroy() leaves no frame requested and no callback of the
\* renderer in the animation-frame queue, so the step after it is never
\* the cancelled frame; with no frame requested it changes nothing.
C29_DestroyCancelsFrame ==
    [][/\ lastOp' = <<"destroy">> =>
              /\ renderer'.animationFrame = 0
              /\ renderer'.frames = 0
              /\ renderer.animationFrame = 0 => renderer' = renderer
              /\ renderer' = [renderer EXCEPT !.animationFrame = 0,
                                              !.frames = 0]
       /\ lastOp = <<"destroy">> => lastOp' # <<"frame">>]_vars

\* destroy() has cancelled a frame requested since the last tick.
C29_Witness ==
    /\ lastOp = <<"destroy">>
    /\ renderer.requests >= 1
    /\ renderer.animationFrame = 0
    /\ renderer.frames = 0

\* ------------------------------------------------------------------ C30
\* C30: a frame for a state whose view duration is zero or negative makes
\* no built-in layer compute a pixel position from a time (timeToX divides
\* by the view duration).
C30_EmptyViewSkipsDrawing ==
    (/\ lastOp = <<"frame">>
     /\ Le(Sub(currentState.viewEnd, currentState.viewStart), Num(0)))
    => \A i \in 1..Len(renderer.calls) : ~renderer.calls[i].timeToX

\* ------------------------------------------------------------------ C26
\* C26: after a pointer-up handled while a drag is in progress the drag
\* target is none and both zoom-selection bounds are null.
C26_PointerUpEndsGesture ==
    (lastOp[1] = "pointerUp" /\ currentState.isDragging # "none")
    => /\ isDragging = "none"
       /\ zoomSelectionStart = Null
       /\ zoomSelectionEnd = Null

\* ------------------------------------------------------------------ C27
\* C27: a pointer-down within playheadHitTolerance pixels of the
\* playhead's X starts a playhead drag whatever the modifier; elsewhere
\* the pan modifier (middle button or alt) starts a pan drag capturing the
\* current viewStart, viewEnd and pointer X; otherwise a zoom-region drag
\* starts with both selection bounds at the pointer time and the pointer X
\* remembered.  currentTime and the view window do not change.
C27_PointerDownClassifies ==
    [][lastOp'[1] = "pointerDown" =>
          LET x == lastOp'[2]
              panModifier == lastOp'[3]
              onPlayhead ==
                  /\ currentState.viewStart # currentState.viewEnd
                  /\ Lt(MathAbs(Sub(x, timeToPixel(currentState.currentTime))),
                        playheadHitTolerance)
          IN  /\ currentTime' = currentTime
              /\ viewStart' = viewStart /\ viewEnd' = viewEnd
              /\ onPlayhead =>
                     /\ isDragging' = "playhead"
                     /\ UNCHANGED <<zoomSelectionStart, zoomSelectionEnd,
                                    panStartX, panStartViewStart,
                                    panStartViewEnd, zoomStartX>>
              /\ (~onPlayhead /\ panModifier) =>
                     /\ isDragging' = "pan"
                     /\ panStartX' = x
                     /\ panStartViewStart' = viewStart
                     /\ panStartViewEnd' = viewEnd
                     /\ UNCHANGED <<zoomSelectionStart, zoomSelectionEnd>>
              /\ (~onPlayhead /\ ~panModifier) =>
                     /\ isDragging' = "zoom-region"
                     /\ zoomSelectionStart' = pixelToTime(x)
                     /\ zoomSelectionEnd' = pixelToTime(x)
                     /\ zoomStartX' = x]_vars

\* A pointer-down with the pan modifier held, on the playhead, has started
\* a playhead drag.
C27_Witness ==
    /\ lastOp[1] = "pointerDown"
    /\ lastOp[3]
    /\ isDragging = "playhead"

\* ------------------------------------------------------------------ C28
\* C28: a wheel event with the zoom modifier is zoom(factor, time under
\* the pointer) with factor 1.15 when deltaY > 0 and 0.87 otherwise;
\* without it, it is pan((delta / width) * viewDuration * 0.5) with delta
\* = deltaX if |deltaX| > |deltaY| and deltaY otherwise, and the view
\* duration does not change.  currentTime, the drag target and the
\* selection never change.
C28_WheelZoomsOrPans ==
    [][lastOp'[1] = "wheel" =>
          LET x == lastOp'[2]
              zoomModifier == lastOp'[3]
              deltaX == lastOp'[4]
              deltaY == lastOp'[5]
              factor == IF deltaY.n > 0 THEN Q(115, 100) ELSE Q(87, 100)
              delta == IF Lt(MathAbs(deltaY), MathAbs(deltaX))
                       THEN deltaX ELSE deltaY
              amount == Mul(Mul(Div(delta, Num(width)),
                                Sub(viewEnd, viewStart)), Q(1, 2))
              expected == IF zoomModifier
                          THEN zoom(Cur, factor, pixelToTime(x)).st
                          ELSE pan(Cur, amount).st
          IN  /\ viewStart' = expected.viewStart
              /\ viewEnd' = expected.viewEnd
              /\ ~zoomModifier =>
                     Sub(viewEnd', viewStart') = Sub(viewEnd, viewStart)
              /\ UNCHANGED <<currentTime, isDragging, zoomSelectionStart,
                             zoomSelectionEnd>>]_vars

\* A wheel-up with the zoom modifier has narrowed the view about the
\* pointer time.
C28_Witness ==
    /\ lastOp[1] = "wheel"
    /\ lastOp[3]
    /\ lastOp[5].n < 0
    /\ Lt(Sub(viewEnd, viewStart), Sub(currentState.viewEnd,
                                       currentState.viewStart))

\* ------------------------------------------------------------------ C31
\* C31: at every pointer move of a pan drag the width of the view window
\* equals the width captured at the pan pointer-down.
C31_PanDragKeepsWidth ==
    (lastOp[1] = "pointerMove" /\ currentState.isDragging = "pan")
    => Sub(viewEnd, viewStart) = Sub(panStartViewEnd, panStartViewStart)

\* ------------------------------------------------------------------ C33
\* C33: the release of a zoom-region drag that travelled at least
\* dragThreshold pixels, with a selection spanning at most
\* minZoomSelectionThreshold, leaves the view window and currentTime as
\* they were and clears the selection and the drag target.
C33_ShortSelectionIsNoOp ==
    [][(/\ lastOp'[1] = "pointerUp"
        /\ currentState.isDragging = "zoom-region"
        /\ Le(dragThreshold, MathAbs(Sub(lastOp'[2], zoomStartX)))
        /\ zoomSelectionStart # Null /\ zoomSelectionEnd # Null
        /\ Le(MathAbs(Sub(zoomSelectionEnd, zoomSelectionStart)),
              minZoomSelectionThreshold))
       => /\ UNCHANGED <<viewStart, viewEnd, currentTime>>
          /\ zoomSelectionStart' = Null /\ zoomSelectionEnd' = Null
          /\ isDragging' = "none"]_vars

\* A zoom-region drag that moved the pointer 30 pixels over less than
\* minZoomSelectionThreshold of time has been released off the playhead.
C33_Witness ==
    /\ lastOp[1] = "pointerUp"
    /\ currentState.isDragging = "zoom-region"
    /\ Le(dragThreshold, MathAbs(Sub(lastOp[2], zoomStartX)))
    /\ currentState.zoomSelectionStart # currentState.zoomSelectionEnd
    /\ Le(MathAbs(Sub(currentState.zoomSelectionEnd,
                      currentState.zoomSelectionStart)),
          minZoomSelectionThreshold)
    /\ pixelToTime(lastOp[2]) # currentTime
    /\ isDragging = "none"

\* ------------------------------------------------------------------ C34
\* C34: whenever a handler fires the time-change notification, the time it
\* reports is the store's currentTime after the mutation, and lies in
\* [dataStart, dataEnd].
C34_SeekReportsStoreTime ==
    timeChange # <<>> =>
        /\ timeChange[1] = currentTime
        /\ Le(dataStart, timeChange[1])
        /\ Le(timeChange[1], dataEnd)

\* ------------------------------------------------------------------ C32
\* C32: when the pointer is cancelled or its capture is lost, the gesture
\* ends: the drag target is none and the selection is cleared, so that a
\* later pointer move drags nothing.
C32_CancelEndsDrag ==
    lastOp = <<"pointerCancel">> =>
        /\ isDragging = "none"
        /\ zoomSelectionStart = Null
        /\ zoomSelectionEnd = Null

\* ------------------------------------------------------------------ C36
\* C36: once destroy() has been called, later requests schedule no frame:
\* a requestRender, setState, resize, addLayer, removeLayer or
\* setLayerVisible that follows destroy() leaves no frame callback of the
\* renderer in the queue, and no frame runs.
C36_DestroyIsFinal ==
    [][lastOp = <<"destroy">> =>
           /\ renderer'.frames = 0
           /\ renderer'.animationFrame = 0
           /\ lastOp' # <<"frame">>]_vars

\* ------------------------------------------------------------------ C35
\* C35: after setState(s) on a laid-out renderer that is not destroyed a
\* render eventually executes, and every render draws the snapshot most
\* recently passed to setState, which is the one the component received
\* last.
C35_EveryStateIsDrawn ==
    /\ [](lastOp = <<"frame">> => renderer.drawn = <<currentState>>)
    /\ (lastOp = <<"flush">>)
           ~> (lastOp = <<"frame">> /\ renderer.drawn = <<currentState>>)

\* A frame that answered two or more requests has drawn a snapshot with a
\* moved playhead.
C35_Witness ==
    /\ lastOp = <<"frame">>
    /\ renderer.tick.requests = 2
    /\ currentState.currentTime = Num(30)
    /\ renderer.drawn = <<currentState>>

\* ------------------------------------------------------------------ C40
\* C40: for every layer invoked in a frame, the timeToX and xToTime of the
\* render context map by the viewStart, viewEnd and width of that same
\* context, even if an earlier layer of the frame called setState or
\* resize on the renderer.
C40_FrameContextConsistent ==
    lastOp = <<"frame">> =>
        \A i \in 1..Len(renderer.calls) :
            renderer.calls[i].transform = renderer.calls[i].context

\* ------------------------------------------------------------------ C37
\* Every subscriber still registered holds a snapshot equal to the store.
AllUpToDate ==
    /\ currentState = getState
    /\ "host" \in subscribers => hostState = <<getState>>

\* C37: no update is lost when a subscriber mutates the store during a
\* flush: the mutation leaves a further notification scheduled, whenever
\* none is pending every registered subscriber holds the store's state,
\* and a pending notification always leads to such a state.
C37_NoUpdateLost ==
    /\ [](microtasks = 0 => AllUpToDate)
    /\ [](lastOp[1] = "flush" /\ Len(lastOp) = 3 => microtasks > 0)
    /\ (microtasks > 0) ~> (microtasks = 0 /\ AllUpToDate)

\* The host's subscriber has moved the playhead from inside a flush: the
\* subscribers hold the snapshot taken before the move and a further
\* notification is scheduled.
C37_Witness ==
    /\ lastOp[1] = "flush" /\ Len(lastOp) = 3
    /\ "host" \in subscribers
    /\ hostState # <<getState>>
    /\ currentState # getState
    /\ notifyScheduled

\* ------------------------------------------------------------------ C38
\* C38: once the unsubscribe handle has been called the host's subscriber
\* is not in the set and is never invoked until it subscribes again, also
\* by a notification scheduled before the unsubscribe; that notification
\* still reaches the component.
C38_UnsubscribedNeverInvoked ==
    [][/\ lastOp' = <<"unsubscribe">> => "host" \notin subscribers'
       /\ ("host" \notin subscribers /\ lastOp' # <<"subscribe">>) =>
              /\ hostState' = hostState
              /\ lastOp' = <<"flush">> =>
                     /\ delivered' = <<"component">>
                     /\ currentState' = getState]_vars

\* The handle has been called while a notification was scheduled and the
\* host's subscriber held an older snapshot.
C38_Witness ==
    /\ lastOp = <<"unsubscribe">>
    /\ notifyScheduled /\ microtasks > 0
    /\ hostState # <<>>
    /\ hostState # <<getState>>

\* ------------------------------------------------------------------ C39
\* C39: subscribe(fn) invokes fn once, before it returns, with a snapshot
\* of the store's current state, and registers it; a pending notification
\* stays pending and nothing else changes.
C39_SubscribeCallsImmediately ==
    [][lastOp' = <<"subscribe">> =>
           /\ delivered' = <<"host">>
           /\ hostState' = <<getState>>
           /\ "host" \in subscribers'
           /\ UNCHANGED <<storeVars, notifyScheduled, microtasks,
                          currentState>>]_vars

\* subscribe was called while a notification was pending: the host's
\* subscriber holds the current state, the component an older one.
C39_Witness ==
    /\ lastOp = <<"subscribe">>
    /\ notifyScheduled /\ microtasks > 0
    /\ hostState = <<getState>>
    /\ currentState # getState

====
